---- MODULE Spec2Model ----
(***************************************************************************)
(* Tarix: offset index of a tar archive (CreateTarIndex), its CSV store    *)
(* (ReadTarIndex) and random-access extraction through a TarixHandle       *)
(* (ExtractBytesOfFile, ExtractFileFromTar).                               *)
(*                                                                         *)
(* Strings are sequences of one-character strings, so that formatting,     *)
(* parsing, path cleaning and hashing are computed and not assumed.        *)
(* Offsets are int64 in the program; every value of the model stays far    *)
(* below 2^31, so no width is lost.                                        *)
(***************************************************************************)
EXTENDS Integers, Sequences, FiniteSets, TLC

\* ------------------------------------------------------------------ bounds
\* Physical header records in an archive.
MaxEntries == 2
\* ExtractBytesOfFile calls issued on one TarixHandle.
MaxCalls == 2
\* Data rows of a hand-written index file (SpecLoad).
MaxRows == 2
\* Concurrent calls of ExtractBytesFromTarWithIndex.
NumCallers == 2

\* ------------------------------------------------------- program constants
HashLen == 16
headerSize == 512
\* The mask 511 of (size + 511) & ^int64(511).
blockMask == 511
\* Two zero blocks end a tar archive.
trailerSize == 2 * headerSize

\* --------------------------------------------------------------- strings
Digits == <<"0", "1", "2", "3", "4", "5", "6", "7", "8", "9">>
HexDigits == Digits \o <<"a", "b", "c", "d", "e", "f">>

RECURSIVE FormatNat(_)
FormatNat(n) ==
    IF n < 10 THEN <<Digits[n + 1]>>
    ELSE FormatNat(n \div 10) \o <<Digits[(n % 10) + 1]>>

\* fmt.Sprintf("%d", n)
FormatInt(n) == IF n < 0 THEN <<"-">> \o FormatNat(0 - n) ELSE FormatNat(n)

DigitVal(c) == CHOOSE d \in 0..9 : Digits[d + 1] = c
IsDigit(c) == \E d \in 0..9 : Digits[d + 1] = c

RECURSIVE ParseNat(_, _)
ParseNat(s, acc) ==
    IF s = <<>> THEN acc ELSE ParseNat(Tail(s), acc * 10 + DigitVal(Head(s)))

\* strconv.ParseInt(value, 10, 64): an optional sign, then one or more
\* decimal digits and nothing else.
parseInt64(value) ==
    LET signed == value # <<>> /\ Head(value) \in {"+", "-"}
        body == IF signed THEN Tail(value) ELSE value
    IN  IF body = <<>> \/ \E i \in 1..Len(body) : ~IsDigit(body[i])
        THEN [ok |-> FALSE, val |-> 0]
        ELSE [ok |-> TRUE,
              val |-> IF signed /\ Head(value) = "-"
                      THEN 0 - ParseNat(body, 0) ELSE ParseNat(body, 0)]

\* ----------------------------------------------------------------- paths
\* The elements of a path between separators.
RECURSIVE SplitPath(_, _, _)
SplitPath(p, cur, acc) ==
    IF p = <<>> THEN Append(acc, cur)
    ELSE IF Head(p) = "/" THEN SplitPath(Tail(p), <<>>, Append(acc, cur))
    ELSE SplitPath(Tail(p), Append(cur, Head(p)), acc)

RECURSIVE JoinPath(_)
JoinPath(elems) ==
    IF elems = <<>> THEN <<>>
    ELSE IF Len(elems) = 1 THEN elems[1]
    ELSE elems[1] \o <<"/">> \o JoinPath(Tail(elems))

DotDot == <<".", ".">>

\* The element stack of filepath.Clean: empty and "." elements are dropped,
\* ".." removes the element before it (or is kept at the front of a
\* relative path, dropped at the root).
RECURSIVE CleanElems(_, _, _)
CleanElems(elems, out, rooted) ==
    IF elems = <<>> THEN out
    ELSE LET e == Head(elems) IN
         IF e = <<>> \/ e = <<".">> THEN CleanElems(Tail(elems), out, rooted)
         ELSE IF e = DotDot
              THEN IF out # <<>> /\ out[Len(out)] # DotDot
                   THEN CleanElems(Tail(elems), SubSeq(out, 1, Len(out) - 1), rooted)
                   ELSE IF rooted THEN CleanElems(Tail(elems), out, rooted)
                   ELSE CleanElems(Tail(elems), Append(out, e), rooted)
         ELSE CleanElems(Tail(elems), Append(out, e), rooted)

\* filepath.Clean
Clean(path) ==
    IF path = <<>> THEN <<".">>
    ELSE LET rooted == Head(path) = "/"
             body == JoinPath(CleanElems(SplitPath(path, <<>>, <<>>), <<>>, rooted))
         IN  IF rooted THEN <<"/">> \o body
             ELSE IF body = <<>> THEN <<".">> ELSE body

\* ------------------------------------------------------------------ hash
CharCode(c) ==
    CASE c = "a" -> 1 [] c = "b" -> 2 [] c = "c" -> 3
      [] c = "/" -> 4 [] c = "." -> 5 [] OTHER -> 6

RECURSIVE PathNumber(_, _)
PathNumber(p, acc) ==
    IF p = <<>> THEN acc ELSE PathNumber(Tail(p), acc * 7 + CharCode(Head(p)))

RECURSIVE HexLow(_, _)
HexLow(n, width) ==
    IF width = 0 THEN <<>>
    ELSE <<HexDigits[(n % 16) + 1]>> \o HexLow(n \div 16, width - 1)

\* hex.EncodeToString(md5.Sum(filePath)): 32 hex characters. MD5 is
\* abstracted as a digest that is injective on the paths of the model and
\* carries its entropy in the leading characters, as a digest does.
md5Hex(filePath) == HexLow(PathNumber(filePath, 1), 2 * HashLen)

hashFilePath(filePath) == SubSeq(md5Hex(filePath), 1, HashLen)

\* --------------------------------------------------------------- archive
TypeReg == "0"
TypeDir == "5"
TypeCont == "7"
TypeXHeader == "x"
\* A header block whose checksum does not verify.
Corrupt == "corrupt"

NameA == <<"a">>
NameDotA == <<".", "/", "a">>
NameB == <<"b">>
NameC == <<"c">>

\* The physical header records an archive is built from: regular files
\* (empty, 13 bytes, more than one block), a directory, a non-regular entry
\* with data, a PAX extended header carrying the path of the entry after
\* it, and a corrupt header.
EntryPool ==
    {[typeflag |-> TypeReg, name |-> n, size |-> s] :
        n \in {NameA, NameDotA, NameB}, s \in {0, 13}}
    \cup {[typeflag |-> TypeReg, name |-> NameB, size |-> 513],
          [typeflag |-> TypeDir, name |-> NameB, size |-> 0],
          [typeflag |-> TypeCont, name |-> NameB, size |-> 13],
          [typeflag |-> TypeXHeader, name |-> NameB, size |-> 13],
          [typeflag |-> Corrupt, name |-> NameB, size |-> 0]}

Archives == UNION {[1..n -> EntryPool] : n \in 0..MaxEntries}

\* The paths an extraction is asked for.
LookupPaths == {NameA, NameDotA, NameB, NameC}

\* An output file that exists before ExtractFileFromTar runs.
OldOut == [exists |-> TRUE, bytes |-> <<254>>]
NoFile == [exists |-> FALSE, bytes |-> <<>>]
NoIndexFile == [exists |-> FALSE, rows |-> <<>>]

\* (size + 511) & ^int64(511)
PaddedSize(size) == (size + blockMask) - ((size + blockMask) % (blockMask + 1))

\* tar's isHeaderOnlyType: the entry has no data section.
IsHeaderOnly(e) == e.typeflag \in {TypeDir, Corrupt}

\* Bytes a physical record occupies: header block and padded data.
RecLen(e) == headerSize + (IF IsHeaderOnly(e) THEN 0 ELSE PaddedSize(e.size))

RECURSIVE OffsetOf(_, _)
\* Byte offset of the header block of physical record k of archive a.
OffsetOf(a, k) == IF k <= 1 THEN 0 ELSE OffsetOf(a, k - 1) + RecLen(a[k - 1])

TarSize(a) == OffsetOf(a, Len(a) + 1) + trailerSize

\* Byte i (from 1) of the data of physical record k: never 0 (padding) and
\* never 255 (which stands for the bytes of a header block), and different
\* for different records.
DataByte(k, i) == 1 + ((31 * k + i) % 250)

RECURSIVE ByteIn(_, _, _)
\* The byte rel bytes after the header block of physical record k begins:
\* a header byte, a data byte, padding, or a byte of a later record or of
\* the zero blocks that end the archive.
ByteIn(a, k, rel) ==
    IF k > Len(a) THEN 0
    ELSE IF rel >= RecLen(a[k]) THEN ByteIn(a, k + 1, rel - RecLen(a[k]))
    ELSE IF rel < headerSize THEN 255
    ELSE IF rel - headerSize < a[k].size THEN DataByte(k, rel - headerSize + 1)
    ELSE 0

\* The byte of archive a at offset pos (0 <= pos < TarSize(a)).
ByteAt(a, pos) == ByteIn(a, 1, pos)

\* The data of physical record k, as it was archived.
Content(a, k) == [i \in 1..a[k].size |-> DataByte(k, i)]

NoHeader == [Typeflag |-> "", Name |-> <<>>, Size |-> 0]

\* tar.Reader.Next from physical record k: a PAX extended header is read
\* and merged into the header after it, which is the one returned; the end
\* of the archive is io.EOF and a corrupt header an error.
RECURSIVE TarNext(_, _, _)
TarNext(a, k, paxPath) ==
    IF k > Len(a) THEN [kind |-> "eof", header |-> NoHeader, at |-> k]
    ELSE IF a[k].typeflag = Corrupt
         THEN [kind |-> "err", header |-> NoHeader, at |-> k]
    ELSE IF a[k].typeflag = TypeXHeader THEN TarNext(a, k + 1, a[k].name)
    ELSE [kind |-> "hdr",
          header |-> [Typeflag |-> a[k].typeflag,
                      Name |-> IF paxPath = <<>> THEN a[k].name ELSE paxPath,
                      Size |-> a[k].size],
          at |-> k]

\* ----------------------------------------------------------------- state
VARIABLES
    tarFile,      \* the archive on disk: its physical header records
    indexFile,    \* the index file on disk: [exists, rows]
    outFile,      \* the output file on disk: [exists, bytes]
    pc,           \* where the program is
    index,        \* CreateTarIndex: index.Files
    currentPos,   \* CreateTarIndex: currentPos
    trRec,        \* CreateTarIndex: next physical record of the tar.Reader
    pending,      \* CreateTarIndex: keys of index.Files not yet ranged over
    wbuf,         \* CreateTarIndex: rows held by the csv.Writer's buffer
    ctiRet,       \* CreateTarIndex: the error returned ("" while running)
    rdRow,        \* ReadTarIndex: records the csv.Reader has returned
    rdIndex,      \* ReadTarIndex: index.Files under construction
    rtiRet,       \* ReadTarIndex: what it returned: [err, loaded, Files]
    th,           \* the TarixHandle: [open, Files, pos]
    call,         \* the extraction call: [filePath, outputPath, n]
    fileInfo,     \* ExtractBytesOfFile: fileInfo
    exRet,        \* ExtractBytesOfFile: [data, err, key]
    efRet,        \* ExtractFileFromTar: the error returned
    missed,       \* a call on this handle has returned not-found
    shortRead,    \* a call on this handle has returned the read error
    caller,       \* concurrent calls of ExtractBytesFromTarWithIndex: each
                  \* one's [pc, filePath, fileInfo, ret, crossed]
    filePos,      \* the position of each open archive file the calls use
    fileOf        \* the archive file each concurrent call was given

diskVars == <<tarFile, indexFile, outFile>>
ctiVars == <<index, currentPos, trRec, pending, wbuf, ctiRet>>
rtiVars == <<rdRow, rdIndex, rtiRet>>
exVars == <<th, call, fileInfo, exRet, efRet, missed, shortRead>>
concVars == <<caller, filePos, fileOf>>
vars == <<diskVars, pc, ctiVars, rtiVars, exVars, concVars>>

EmptyFiles == [k \in {} |-> [Start |-> 0, Size |-> 0]]
NoFileInfo == [Start |-> 0, Size |-> 0]
NoData == [isNil |-> TRUE, bytes |-> <<>>]
NoResult == [data |-> NoData, err |-> "", key |-> <<>>]
NoHandle == [open |-> FALSE, Files |-> EmptyFiles, pos |-> 0]
NotReturned == [err |-> "", loaded |-> FALSE, Files |-> EmptyFiles]
NoCall == [filePath |-> <<>>, outputPath |-> "", n |-> 0]

\* The concurrent calls, and a call that has not begun.
Callers == 1..NumCallers
NoCaller ==
    [pc |-> "start", filePath |-> <<>>, fileInfo |-> NoFileInfo,
     ret |-> NoResult, crossed |-> FALSE]

InitRest ==
    /\ index = EmptyFiles
    /\ currentPos = 0
    /\ trRec = 1
    /\ pending = {}
    /\ wbuf = <<>>
    /\ ctiRet = ""
    /\ rdRow = 0
    /\ rdIndex = EmptyFiles
    /\ rtiRet = NotReturned
    /\ th = NoHandle
    /\ call = NoCall
    /\ fileInfo = NoFileInfo
    /\ exRet = NoResult
    /\ efRet = ""
    /\ missed = FALSE
    /\ shortRead = FALSE
    /\ caller = [c \in Callers |-> NoCaller]
    /\ filePos = [f \in Callers |-> 0]

\* The index command on an archive, with no index file yet.
Init ==
    /\ tarFile \in Archives
    /\ indexFile = NoIndexFile
    /\ outFile \in {NoFile, OldOut}
    /\ pc = "cti_open"
    /\ InitRest
    /\ fileOf = [c \in Callers |-> c]

\* -------------------------------------------------------- CreateTarIndex
HeaderRow == <<<<"k", "e", "y">>, <<"s", "t", "a", "r", "t">>, <<"s", "i", "z", "e">>>>

EntryRow(hsh, fi) == <<hsh, FormatInt(fi.Start), FormatInt(fi.Size)>>

\* os.Open(tarPath) and file.Stat()
CTI_Open ==
    /\ pc = "cti_open"
    /\ \E ok \in BOOLEAN :
          IF ok THEN pc' = "cti_scan" /\ ctiRet' = ctiRet
          ELSE pc' = "idle" /\ ctiRet' = "failed to open tar file"
    /\ UNCHANGED <<diskVars, index, currentPos, trRec, pending, wbuf, rtiVars, exVars, concVars>>

\* The position the scan leaves the cursor at after a header.
NextPos(headerPos, header) == headerPos + headerSize + PaddedSize(header.Size)

\* The key CreateTarIndex files a header's name under.
IndexKey(name) == hashFilePath(Clean(name))

\* The test for a key that is already filed, left out.
IsDuplicateNever(files, hash) == FALSE

\* _, exists := index.Files[cleanFilePathHash]
IsDuplicate(files, hash) == hash \in DOMAIN files

\* One iteration of the scan loop.
CTI_Scan ==
    /\ pc = "cti_scan"
    /\ LET headerPos == currentPos
           nxt == TarNext(tarFile, trRec, <<>>)
           header == nxt.header
           cleanFilePathHash == IndexKey(header.Name)
           fileIndex == [Start |-> headerPos, Size |-> header.Size]
       IN  IF nxt.kind = "eof"
           THEN /\ pc' = "cti_create"
                /\ UNCHANGED <<index, currentPos, trRec, ctiRet>>
           ELSE IF nxt.kind = "err"
           THEN /\ pc' = "idle"
                /\ ctiRet' = "error reading tar header"
                /\ UNCHANGED <<index, currentPos, trRec>>
           ELSE IF header.Typeflag # TypeReg
           THEN /\ currentPos' = NextPos(headerPos, header)
                /\ trRec' = nxt.at + 1
                /\ UNCHANGED <<pc, index, ctiRet>>
           ELSE IF IsDuplicate(index, cleanFilePathHash)
           THEN /\ pc' = "idle"
                /\ ctiRet' = "duplicate file path found"
                /\ trRec' = nxt.at + 1
                /\ UNCHANGED <<index, currentPos>>
           ELSE /\ index' = index @@ (cleanFilePathHash :> fileIndex)
                /\ currentPos' = NextPos(headerPos, header)
                /\ trRec' = nxt.at + 1
                /\ UNCHANGED <<pc, ctiRet>>
    /\ UNCHANGED <<diskVars, pending, wbuf, rtiVars, exVars, concVars>>

\* os.Create(indexPath) and csv.NewWriter
CTI_Create ==
    /\ pc = "cti_create"
    /\ \E ok \in BOOLEAN :
          IF ok
          THEN /\ indexFile' = [exists |-> TRUE, rows |-> <<>>]
               /\ pc' = "cti_whdr"
               /\ ctiRet' = ctiRet
          ELSE /\ pc' = "idle"
               /\ ctiRet' = "failed to create index file"
               /\ indexFile' = indexFile
    /\ UNCHANGED <<tarFile, outFile, index, currentPos, trRec, pending, wbuf, rtiVars, exVars, concVars>>

\* writer.Write of the header row: the row goes to the writer's buffer and
\* the returned error is dropped. The rows of an index of the model stay
\* below the 4096 bytes of the buffer, so the file is written at the flush.
CTI_WriteHeader ==
    /\ pc = "cti_whdr"
    /\ wbuf' = Append(wbuf, HeaderRow)
    /\ pending' = DOMAIN index
    /\ pc' = "cti_rows"
    /\ UNCHANGED <<diskVars, index, currentPos, trRec, ctiRet, rtiVars, exVars, concVars>>

\* writer.Write of one entry of the range over index.Files, in any order.
CTI_WriteRow ==
    /\ pc = "cti_rows"
    /\ \E hsh \in pending :
          /\ wbuf' = Append(wbuf, EntryRow(hsh, index[hsh]))
          /\ pending' = pending \ {hsh}
    /\ UNCHANGED <<diskVars, pc, index, currentPos, trRec, ctiRet, rtiVars, exVars, concVars>>

\* What a flush of buffer buf leaves in the file: all of it, or, when the
\* write fails, some rows short of all of it.
FlushOutcomes(buf) == {SubSeq(buf, 1, n) : n \in 0..Len(buf)}

\* return nil, then the deferred writer.Flush() and outFile.Close(): the
\* error of the flush is not looked at.
CTI_Return ==
    /\ pc = "cti_rows"
    /\ pending = {}
    /\ \E written \in FlushOutcomes(wbuf) :
          indexFile' = [exists |-> TRUE, rows |-> indexFile.rows \o written]
    /\ wbuf' = <<>>
    /\ ctiRet' = "nil"
    /\ pc' = "idle"
    /\ UNCHANGED <<tarFile, outFile, index, currentPos, trRec, pending, rtiVars, exVars, concVars>>

CreateTarIndex ==
    CTI_Open \/ CTI_Scan \/ CTI_Create \/ CTI_WriteHeader \/ CTI_WriteRow \/ CTI_Return

\* ---------------------------------------------------------- ReadTarIndex
\* NewTarixHandle is called, by ExtractFileFromTar or by a caller that
\* keeps the handle for its ExtractBytesOfFile calls.
NTH_Start ==
    /\ pc = "idle"
    /\ pc' = "rti_open"
    /\ UNCHANGED <<diskVars, ctiVars, rtiVars, exVars, concVars>>

\* NewTarixHandle and ExtractFileFromTar pass an error on as it is.
Fail(err) ==
    /\ pc' = "done"
    /\ efRet' = err

\* What the loop body makes of one record: the error it returns ("" for
\* none) and the entry it inserts. The csv.Reader itself refuses a record
\* whose field count differs from the first record's.
ReadRecord(record, first) ==
    IF Len(record) # Len(first)
    THEN [err |-> "failed to read CSV record", key |-> <<>>, fi |-> NoFileInfo]
    ELSE IF Len(record) # 3
    THEN [err |-> "unexpected CSV format", key |-> <<>>, fi |-> NoFileInfo]
    ELSE LET start == parseInt64(record[2])
             size == parseInt64(record[3])
         IN  IF ~start.ok
             THEN [err |-> "invalid start value", key |-> <<>>, fi |-> NoFileInfo]
             ELSE IF ~size.ok
             THEN [err |-> "invalid size value", key |-> <<>>, fi |-> NoFileInfo]
             ELSE [err |-> "", key |-> record[1],
                   fi |-> [Start |-> start.val, Size |-> size.val]]

\* ReadTarIndex made to return the index it has built so far next to the
\* error.
ReadTarIndexPartial(err, built) ==
    [err |-> err, loaded |-> TRUE, Files |-> built]

\* What ReadTarIndex returns when it ends with err ("nil" for no error)
\* having built the index built: nil and the error, or the index.
ReadTarIndexResult(err, built) ==
    IF err # "nil" THEN [err |-> err, loaded |-> FALSE, Files |-> EmptyFiles]
    ELSE [err |-> "nil", loaded |-> TRUE, Files |-> built]

\* The insertion made to leave the entry of a key that is already in the
\* map as it is.
SetFileKeepFirst(files, key, fi) ==
    [k \in DOMAIN files \cup {key} |-> IF k \in DOMAIN files THEN files[k] ELSE fi]

\* index.Files[record[0]] = FileIndex{Start, Size}: a plain map assignment,
\* which replaces the entry of a key that is already in the map.
SetFile(files, key, fi) ==
    [k \in DOMAIN files \cup {key} |-> IF k = key THEN fi ELSE files[k]]

\* os.Open(indexPath)
RTI_Open ==
    /\ pc = "rti_open"
    /\ IF indexFile.exists
       THEN pc' = "rti_header" /\ UNCHANGED <<rtiRet, efRet>>
       ELSE /\ rtiRet' = ReadTarIndexResult("failed to open index file", rdIndex)
            /\ Fail(rtiRet'.err)
    /\ UNCHANGED <<diskVars, ctiVars, rdRow, rdIndex, th, call, fileInfo, exRet, missed, shortRead, concVars>>

\* reader.Read() of the header, which is discarded: io.EOF on a file with
\* no record is an error.
RTI_Header ==
    /\ pc = "rti_header"
    /\ IF indexFile.rows = <<>>
       THEN /\ rtiRet' = ReadTarIndexResult("failed to read CSV header", rdIndex)
            /\ Fail(rtiRet'.err)
            /\ rdRow' = rdRow
       ELSE rdRow' = 1 /\ pc' = "rti_rows" /\ UNCHANGED <<rtiRet, efRet>>
    /\ UNCHANGED <<diskVars, ctiVars, rdIndex, th, call, fileInfo, exRet, missed, shortRead, concVars>>

\* One iteration of the loop over the records; io.EOF returns the index.
RTI_Row ==
    /\ pc = "rti_rows"
    /\ IF rdRow = Len(indexFile.rows)
       THEN /\ rtiRet' = ReadTarIndexResult("nil", rdIndex)
            /\ pc' = "nth_open"
            /\ UNCHANGED <<rdRow, rdIndex, efRet>>
       ELSE LET r == ReadRecord(indexFile.rows[rdRow + 1], indexFile.rows[1])
            IN  IF r.err # ""
                THEN /\ rtiRet' = ReadTarIndexResult(r.err, rdIndex)
                     /\ Fail(r.err)
                     /\ UNCHANGED <<rdRow, rdIndex>>
                ELSE /\ rdIndex' = SetFile(rdIndex, r.key, r.fi)
                     /\ rdRow' = rdRow + 1
                     /\ UNCHANGED <<pc, rtiRet, efRet>>
    /\ UNCHANGED <<diskVars, ctiVars, th, call, fileInfo, exRet, missed, shortRead, concVars>>

\* os.Open(tarPath) of NewTarixHandle, which returns the handle with the
\* open file and the index, or nil and the error.
NTH_Open ==
    /\ pc = "nth_open"
    /\ \E ok \in BOOLEAN :
          IF ok
          THEN /\ th' = [open |-> TRUE, Files |-> rtiRet.Files, pos |-> 0]
               /\ pc' = "ready"
               /\ efRet' = efRet
          ELSE /\ th' = NoHandle
               /\ Fail("failed to open tar file")
    /\ UNCHANGED <<diskVars, ctiVars, rtiVars, call, fileInfo, exRet, missed, shortRead, concVars>>

\* ---------------------------------------------------- ExtractBytesOfFile
\* The key ExtractBytesOfFile looks filePath up by.
LookupKey(filePath) == hashFilePath(filePath)

\* The not-found error made to name the path that was asked for.
NotFoundNamesPath(filePath, hash) ==
    [data |-> [isNil |-> TRUE, bytes |-> <<>>], err |-> "not found in index",
     key |-> filePath]

\* What a call returns when hash is not a key of the index: no bytes and
\* an error that names the hash.
NotFound(filePath, hash) ==
    [data |-> NoData, err |-> "not found in index", key |-> hash]

\* A call on the handle begins: the key is computed and looked up in
\* th.Index.Files.
EX_Lookup ==
    /\ pc = "ready"
    /\ call.n < MaxCalls
    /\ \E filePath \in LookupPaths :
          LET cleanFilePathHash == LookupKey(filePath)
          IN  /\ call' = [call EXCEPT !.filePath = filePath, !.n = @ + 1]
              /\ IF cleanFilePathHash \in DOMAIN th.Files
                 THEN /\ fileInfo' = th.Files[cleanFilePathHash]
                      /\ exRet' = [data |-> NoData, err |-> "", key |-> cleanFilePathHash]
                      /\ pc' = "ex_seek"
                      /\ missed' = missed
                 ELSE /\ exRet' = NotFound(filePath, cleanFilePathHash)
                      /\ missed' = TRUE
                      /\ UNCHANGED <<pc, fileInfo>>
    /\ UNCHANGED <<diskVars, ctiVars, rtiVars, th, efRet, shortRead, concVars>>

\* The seek left out: the handle stays where it is.
SeekNone(pos, dataPos) == pos

\* The seek made relative to where the handle is (io.SeekCurrent).
SeekCurrent(pos, dataPos) == pos + dataPos

\* The position th.TarFile.Seek(dataPos, io.SeekStart) moves a handle at
\* pos to.
SeekStart(pos, dataPos) == dataPos

\* Seek to the data of the member; a negative position is an error.
EX_Seek ==
    /\ pc = "ex_seek"
    /\ LET dataPos == fileInfo.Start + headerSize
       IN  IF dataPos < 0
           THEN /\ exRet' = [exRet EXCEPT !.err = "failed to seek to file position"]
                /\ th' = th
           ELSE /\ th' = [th EXCEPT !.pos = SeekStart(th.pos, dataPos)]
                /\ exRet' = exRet
    /\ pc' = IF fileInfo.Start + headerSize < 0 THEN "ready" ELSE "ex_read"
    /\ UNCHANGED <<diskVars, ctiVars, rtiVars, call, fileInfo, efRet, missed, shortRead, concVars>>

\* Bytes of archive a from offset pos to its end.
Available(a, pos) == IF pos >= TarSize(a) THEN 0 ELSE TarSize(a) - pos

\* The n bytes of archive a from offset pos.
BytesAt(a, pos, n) == [i \in 1..n |-> ByteAt(a, pos + i - 1)]

\* A single Read in place of io.ReadFull: the bytes that are there, however
\* few, and no error.
ReadOnce(a, pos, size) ==
    LET n == IF size <= Available(a, pos) THEN size ELSE Available(a, pos)
    IN  [data |-> [isNil |-> FALSE, bytes |-> BytesAt(a, pos, n)],
         err |-> "", pos |-> pos + n]

\* io.ReadFull(th.TarFile, data) with len(data) = size on a handle at pos:
\* the bytes and no error, or an error when the archive ends before size
\* bytes were read; the handle moves past what was read.
ReadFull(a, pos, size) ==
    IF size <= Available(a, pos)
    THEN [data |-> [isNil |-> FALSE, bytes |-> BytesAt(a, pos, size)],
          err |-> "", pos |-> pos + size]
    ELSE [data |-> NoData, err |-> "failed to read file data",
          pos |-> pos + Available(a, pos)]

\* make([]byte, fileInfo.Size) and io.ReadFull; a negative size panics.
EX_Read ==
    /\ pc = "ex_read"
    /\ IF fileInfo.Size < 0
       THEN /\ pc' = "panic"
            /\ UNCHANGED <<th, exRet, shortRead>>
       ELSE \E r \in {ReadFull(tarFile, th.pos, fileInfo.Size)} :
                /\ exRet' = [exRet EXCEPT !.data = r.data, !.err = r.err]
                /\ th' = [th EXCEPT !.pos = r.pos]
                /\ shortRead' = (shortRead \/ r.err # "")
                /\ pc' = "ready"
    /\ UNCHANGED <<diskVars, ctiVars, rtiVars, call, fileInfo, efRet, missed, concVars>>

\* ---------------------------------------------------- ExtractFileFromTar
\* ExtractFileFromTar after its ExtractBytesOfFile call returned: the
\* error is passed on, or the output is opened: os.Stdout for "-",
\* os.Create(outputPath) otherwise.
EF_Create ==
    /\ pc = "ready"
    /\ call.n = 1
    /\ \E outputPath \in {"-", "out"} :
          /\ call' = [call EXCEPT !.outputPath = outputPath]
          /\ IF exRet.err # ""
             THEN Fail(exRet.err) /\ outFile' = outFile
             ELSE IF outputPath = "-"
             THEN pc' = "ef_write" /\ UNCHANGED <<outFile, efRet>>
             ELSE \E ok \in BOOLEAN :
                     IF ok
                     THEN /\ outFile' = [exists |-> TRUE, bytes |-> <<>>]
                          /\ pc' = "ef_write"
                          /\ efRet' = efRet
                     ELSE /\ Fail("failed to create output file")
                          /\ outFile' = outFile
    /\ UNCHANGED <<tarFile, indexFile, ctiVars, rtiVars, th, fileInfo, exRet, missed, shortRead, concVars>>

\* What a failed output.Write(data) has written: nothing, or the first
\* half of data.
PartialWrites(bytes) == {<<>>, SubSeq(bytes, 1, Len(bytes) \div 2)}

\* output.Write(data) and the return.
EF_Write ==
    /\ pc = "ef_write"
    /\ \E ok \in BOOLEAN :
          IF ok
          THEN /\ outFile' = IF call.outputPath = "-" THEN outFile
                             ELSE [exists |-> TRUE, bytes |-> exRet.data.bytes]
               /\ Fail("nil")
          ELSE /\ \E w \in PartialWrites(exRet.data.bytes) :
                     outFile' = IF call.outputPath = "-" THEN outFile
                                ELSE [exists |-> TRUE, bytes |-> w]
               /\ Fail("failed to write file data")
    /\ UNCHANGED <<tarFile, indexFile, ctiVars, rtiVars, th, call, fileInfo, exRet, missed, shortRead, concVars>>

ReadTarIndex == RTI_Open \/ RTI_Header \/ RTI_Row

ExtractBytesOfFile == EX_Lookup \/ EX_Seek \/ EX_Read

ExtractFileFromTar == EF_Create \/ EF_Write

Next ==
    \/ CreateTarIndex
    \/ NTH_Start
    \/ ReadTarIndex
    \/ NTH_Open
    \/ ExtractBytesOfFile
    \/ ExtractFileFromTar

Spec == Init /\ [][Next]_vars

\* ------------------------------------------- index files written by hand
KeyA == hashFilePath(NameA)
KeyB == hashFilePath(NameB)

\* The archive the hand-written index files are used with: "a" of 13 bytes
\* at offset 0 and "b" of 513 bytes at offset 1024.
LoadArchive ==
    <<[typeflag |-> TypeReg, name |-> NameA, size |-> 13],
      [typeflag |-> TypeReg, name |-> NameB, size |-> 513]>>

\* Records of an index file: the two rows of LoadArchive's index, a second
\* row for a key, a size beyond the end of the archive, rows with too few
\* and too many columns, with a start or a size that is no number, and with
\* a negative start or size.
RowPool ==
    {EntryRow(KeyA, [Start |-> 0, Size |-> 13]),
     EntryRow(KeyB, [Start |-> 1024, Size |-> 513]),
     EntryRow(KeyA, [Start |-> 1024, Size |-> 513]),
     EntryRow(KeyB, [Start |-> 1024, Size |-> 3000]),
     <<KeyA, <<"0">>>>,
     <<KeyA, <<"0">>, <<"1", "3">>, <<"0">>>>,
     <<KeyA, <<"x">>, <<"1", "3">>>>,
     <<KeyA, <<"0">>, <<>>>>,
     EntryRow(KeyB, [Start |-> 0 - 1024, Size |-> 13]),
     EntryRow(KeyB, [Start |-> 0, Size |-> 0 - 1])}

ShortHeaderRow == <<<<"k", "e", "y">>, <<"s", "t", "a", "r", "t">>>>

\* Index files: missing, empty, or a first row (the header row, a header
\* of two columns, or an entry row where the header should be) and up to
\* MaxRows records.
LoadFiles ==
    {NoIndexFile, [exists |-> TRUE, rows |-> <<>>]}
    \cup {[exists |-> TRUE, rows |-> <<h>> \o body] :
            h \in {HeaderRow, ShortHeaderRow,
                   EntryRow(KeyA, [Start |-> 0, Size |-> 13])},
            body \in UNION {[1..n -> RowPool] : n \in 0..MaxRows}}

\* An extraction command on an index file that is already on disk.
InitLoad ==
    /\ tarFile = LoadArchive
    /\ indexFile \in LoadFiles
    /\ outFile \in {NoFile, OldOut}
    /\ pc = "idle"
    /\ InitRest
    /\ fileOf = [c \in Callers |-> c]

NextLoad ==
    \/ NTH_Start
    \/ ReadTarIndex
    \/ NTH_Open
    \/ ExtractBytesOfFile
    \/ ExtractFileFromTar

SpecLoad == InitLoad /\ [][NextLoad]_vars

\* ---------------------------------------------- ExtractBytesFromTarWithIndex
\* Concurrent calls with the index of the handle (th.Files) as tindex and
\* the file fileOf[c] as tarFile. A Seek and a Read of an *os.File are each
\* atomic; the Seek and the Read of one call are two steps.

\* The calls when call c makes its Seek or its Read: for a call that is
\* between its own Seek and Read, another call's step has come in between.
Crossed(c) ==
    [d \in Callers |->
        IF d # c /\ caller[d].pc = "read"
        THEN [caller[d] EXCEPT !.crossed = TRUE]
        ELSE caller[d]]

\* hashFilePath(filePath) and the lookup in tindex.Files.
WI_Lookup(c) ==
    /\ pc = "ready"
    /\ caller[c].pc = "start"
    /\ \E filePath \in LookupPaths :
          LET cleanFilePathHash == LookupKey(filePath)
          IN  caller' = [caller EXCEPT ![c] =
                  IF cleanFilePathHash \in DOMAIN th.Files
                  THEN [pc |-> "seek", filePath |-> filePath,
                        fileInfo |-> th.Files[cleanFilePathHash],
                        ret |-> [data |-> NoData, err |-> "",
                                 key |-> cleanFilePathHash],
                        crossed |-> FALSE]
                  ELSE [pc |-> "done", filePath |-> filePath,
                        fileInfo |-> NoFileInfo,
                        ret |-> NotFound(filePath, cleanFilePathHash),
                        crossed |-> FALSE]]
    /\ UNCHANGED <<diskVars, pc, ctiVars, rtiVars, exVars, filePos, fileOf>>

\* tarFile.Seek(dataPos, io.SeekStart); a negative position is an error.
WI_Seek(c) ==
    /\ pc = "ready"
    /\ caller[c].pc = "seek"
    /\ LET dataPos == caller[c].fileInfo.Start + headerSize
       IN  IF dataPos < 0
           THEN /\ caller' = [caller EXCEPT ![c].pc = "done",
                                 ![c].ret.err = "failed to seek to file position"]
                /\ filePos' = filePos
           ELSE /\ filePos' = [filePos EXCEPT ![fileOf[c]] = SeekStart(@, dataPos)]
                /\ caller' = [Crossed(c) EXCEPT ![c].pc = "read"]
    /\ UNCHANGED <<diskVars, pc, ctiVars, rtiVars, exVars, fileOf>>

\* make([]byte, fileInfo.Size) and io.ReadFull(tarFile, data); a negative
\* size panics.
WI_Read(c) ==
    /\ pc = "ready"
    /\ caller[c].pc = "read"
    /\ IF caller[c].fileInfo.Size < 0
       THEN /\ caller' = [caller EXCEPT ![c].pc = "panic"]
            /\ filePos' = filePos
       ELSE \E r \in {ReadFull(tarFile, filePos[fileOf[c]], caller[c].fileInfo.Size)} :
                /\ caller' = [Crossed(c) EXCEPT ![c].pc = "done",
                                 ![c].ret.data = r.data, ![c].ret.err = r.err]
                /\ filePos' = [filePos EXCEPT ![fileOf[c]] = r.pos]
    /\ UNCHANGED <<diskVars, pc, ctiVars, rtiVars, exVars, fileOf>>

ExtractBytesFromTarWithIndex ==
    \E c \in Callers : WI_Lookup(c) \/ WI_Seek(c) \/ WI_Read(c)

\* Index files that hold rows of LoadArchive's index, in either order.
RowA == EntryRow(KeyA, [Start |-> 0, Size |-> 13])
RowB == EntryRow(KeyB, [Start |-> 1024, Size |-> 513])
SharedIndexFiles ==
    {[exists |-> TRUE, rows |-> <<HeaderRow>> \o body] :
        body \in {<<RowA>>, <<RowB>>, <<RowA, RowB>>, <<RowB, RowA>>}}

\* The index is loaded once; then every call is given the one archive file
\* (InitShared) or a file of its own opened on the archive (InitOwn).
InitShared ==
    /\ tarFile = LoadArchive
    /\ indexFile \in SharedIndexFiles
    /\ outFile = NoFile
    /\ pc = "idle"
    /\ InitRest
    /\ fileOf = [c \in Callers |-> 1]

InitOwn ==
    /\ tarFile = LoadArchive
    /\ indexFile \in SharedIndexFiles
    /\ outFile = NoFile
    /\ pc = "idle"
    /\ InitRest
    /\ fileOf = [c \in Callers |-> c]

NextConc ==
    \/ NTH_Start
    \/ ReadTarIndex
    \/ NTH_Open
    \/ ExtractBytesFromTarWithIndex

SpecShared == InitShared /\ [][NextConc]_vars

SpecOwn == InitOwn /\ [][NextConc]_vars

\* ================================================================ claims
\* The headers tar.Reader.Next returns from physical record k on, each with
\* the physical record (at) its own header block is.
RECURSIVE ReaderHeaders(_, _)
ReaderHeaders(a, k) ==
    LET nxt == TarNext(a, k, <<>>)
    IN  IF nxt.kind # "hdr" THEN <<>> ELSE <<nxt>> \o ReaderHeaders(a, nxt.at + 1)

\* Every record is a regular file and no two have the same name.
PlainArchive(a) ==
    /\ \A k \in 1..Len(a) : a[k].typeflag = TypeReg
    /\ \A j, k \in 1..Len(a) : a[j].name = a[k].name => j = k

\* The rows CreateTarIndex is to write: the header row and a row per entry.
RowsComplete ==
    /\ indexFile.exists
    /\ Len(indexFile.rows) = 1 + Cardinality(DOMAIN index)
    /\ indexFile.rows[1] = HeaderRow
    /\ {indexFile.rows[i] : i \in 2..Len(indexFile.rows)}
          = {EntryRow(k, index[k]) : k \in DOMAIN index}

IsError(ret) == ret \notin {"", "nil"}

\* C1: for an archive of regular files with distinct names, once the index
\* was built, written in full and loaded, extracting a member by its name
\* returns exactly the bytes of that member.
C1_RoundTrip ==
    (pc = "ready" /\ call.n >= 1 /\ ctiRet = "nil" /\ RowsComplete
        /\ PlainArchive(tarFile))
    => \A k \in 1..Len(tarFile) :
          tarFile[k].name = call.filePath
          => /\ exRet.err = ""
             /\ exRet.data = [isNil |-> FALSE, bytes |-> Content(tarFile, k)]

\* C2: extraction looks a path up under the identifier the indexer files it
\* under (canonicalize, hash, truncate), so that a path and an equivalent
\* path with a "." segment give the same identifier.
C2_SameIdentifier ==
    (pc = "ready" /\ call.n >= 1) => exRet.key = IndexKey(call.filePath)

\* C3: after a successful CreateTarIndex the index has exactly one entry per
\* regular-file header of the archive and none for another entry, each with
\* start the offset of the member's header and size the declared size, and
\* the index file has the header row and one row per entry.
C3_IndexContent ==
    ctiRet = "nil"
    => LET hs == ReaderHeaders(tarFile, 1)
           regs == {i \in 1..Len(hs) : hs[i].header.Typeflag = TypeReg}
       IN  /\ Cardinality(DOMAIN index) = Cardinality(regs)
           /\ \A i \in regs :
                 /\ IndexKey(hs[i].header.Name) \in DOMAIN index
                 /\ index[IndexKey(hs[i].header.Name)]
                       = [Start |-> OffsetOf(tarFile, hs[i].at),
                          Size |-> hs[i].header.Size]
           /\ indexFile.exists
           /\ Len(indexFile.rows) = 1 + Cardinality(regs)

\* C4: when the scan reads a regular-file header whose identifier is already
\* in the index, CreateTarIndex returns the duplicate error at that header
\* and leaves the index as it is; and after that error there is no index
\* file.
C4_Duplicate ==
    /\ [](ctiRet = "duplicate file path found" => ~indexFile.exists)
    /\ [][(/\ pc = "cti_scan"
           /\ TarNext(tarFile, trRec, <<>>).kind = "hdr"
           /\ TarNext(tarFile, trRec, <<>>).header.Typeflag = TypeReg
           /\ IndexKey(TarNext(tarFile, trRec, <<>>).header.Name) \in DOMAIN index)
          => (/\ ctiRet' = "duplicate file path found"
              /\ pc' = "idle"
              /\ index' = index
              /\ ~indexFile'.exists)]_vars

\* A duplicate was found: the index has the first entry and no file exists.
C4_Witness ==
    /\ ctiRet = "duplicate file path found"
    /\ Cardinality(DOMAIN index) = 1
    /\ Len(tarFile) = 2
    /\ tarFile[1].name # tarFile[2].name
    /\ ~indexFile.exists

\* C5: a call for a path whose identifier is not in the loaded index returns
\* the not-found error naming the hashed key and no bytes; the handle's
\* index stays the index that was loaded; and a later call for a member
\* that is in the index returns the bytes the index entry designates.
C5_MissingMember ==
    /\ pc \in {"ready", "ex_seek", "ex_read"} => th.open /\ th.Files = rtiRet.Files
    /\ (pc = "ready" /\ call.n >= 1 /\ hashFilePath(call.filePath) \notin DOMAIN th.Files)
       => exRet = [data |-> NoData, err |-> "not found in index",
                   key |-> hashFilePath(call.filePath)]
    /\ (pc = "ready" /\ missed /\ hashFilePath(call.filePath) \in DOMAIN th.Files)
       => LET fi == th.Files[hashFilePath(call.filePath)]
          IN  /\ exRet.err = ""
              /\ exRet.data = [isNil |-> FALSE,
                               bytes |-> BytesAt(tarFile, fi.Start + headerSize, fi.Size)]

\* After a not-found call, a call returned the 13 bytes of a member.
C5_Witness ==
    /\ pc = "ready"
    /\ missed
    /\ call.n = 2
    /\ exRet.err = ""
    /\ \E k \in 1..Len(tarFile) :
          tarFile[k].size = 13 /\ exRet.data.bytes = Content(tarFile, k)

\* A field that is a decimal number.
Numeric(f) ==
    LET body == IF f # <<>> /\ Head(f) \in {"+", "-"} THEN Tail(f) ELSE f
    IN  body # <<>> /\ \A i \in 1..Len(body) : body[i] \in {Digits[d] : d \in 1..10}

WellFormed(row) == Len(row) = 3 /\ Numeric(row[2]) /\ Numeric(row[3])

\* C6: ReadTarIndex returns an error and no index, or no error and an index
\* that has every data row of the file; it returns the error whenever the
\* file has no header row or a row, anywhere, that has not 3 columns or has
\* a start or size that is no number.
C6_LoadAllOrNothing ==
    LET rows == indexFile.rows
        data == 2..Len(rows)
    IN  /\ IsError(rtiRet.err) => ~rtiRet.loaded /\ rtiRet.Files = EmptyFiles
        /\ rtiRet.err = "nil"
           => /\ rtiRet.loaded
              /\ rows # <<>>
              /\ \A i \in data : WellFormed(rows[i])
              /\ DOMAIN rtiRet.Files = {rows[i][1] : i \in data}
              /\ \A k \in DOMAIN rtiRet.Files : \E i \in data :
                    /\ rows[i][1] = k
                    /\ FormatInt(rtiRet.Files[k].Start) = rows[i][2]
                    /\ FormatInt(rtiRet.Files[k].Size) = rows[i][3]
        /\ (rtiRet.err # "" /\ (rows = <<>> \/ \E i \in data : ~WellFormed(rows[i])))
           => IsError(rtiRet.err)

\* The load stopped at a row with a bad size after it had taken a row.
C6_Witness ==
    /\ rtiRet.err = "invalid size value"
    /\ rdIndex # EmptyFiles
    /\ ~rtiRet.loaded
    /\ rtiRet.Files = EmptyFiles

\* C7: a call seeks the handle to start + 512 from the start of the archive
\* and returns exactly size bytes read from there, or, when the archive has
\* fewer than size bytes from there on, the read error and no bytes.
C7_ReadMember ==
    /\ pc = "ex_read" => th.pos = fileInfo.Start + headerSize
    /\ (pc = "ready" /\ call.n >= 1 /\ exRet.err \in {"", "failed to read file data"})
       => LET dataPos == fileInfo.Start + headerSize
          IN  IF fileInfo.Size <= TarSize(tarFile) - dataPos
              THEN /\ exRet.err = ""
                   /\ ~exRet.data.isNil
                   /\ Len(exRet.data.bytes) = fileInfo.Size
                   /\ \A i \in 1..fileInfo.Size :
                         exRet.data.bytes[i] = ByteAt(tarFile, dataPos + i - 1)
              ELSE /\ exRet.err = "failed to read file data"
                   /\ exRet.data = NoData

\* A read ended short although bytes were there to read.
C7_Witness ==
    /\ pc = "ready"
    /\ exRet.err = "failed to read file data"
    /\ fileInfo.Size > TarSize(tarFile) - (fileInfo.Start + headerSize)
    /\ TarSize(tarFile) > fileInfo.Start + headerSize

\* C8: a call of ExtractFileFromTar that returns an error leaves the output
\* file as it was before the call: not created, not truncated, not written.
C8_NoPartialOutput ==
    (pc = "done" /\ IsError(efRet)) => outFile \in {NoFile, OldOut}

\* C9: CreateTarIndex returns no error only if the index file holds the
\* header row and the row of every entry.
C9_NoSwallowedError ==
    ctiRet = "nil" => RowsComplete

\* C10: at the start of every iteration of the scan the cursor is the byte
\* offset of the header that the next header read returns.
C10_Cursor ==
    (pc = "cti_scan" /\ TarNext(tarFile, trRec, <<>>).kind = "hdr")
    => currentPos = OffsetOf(tarFile, TarNext(tarFile, trRec, <<>>).at)

\* The last record of the index file (after its first) whose key column is
\* k.
LastRowOf(k) ==
    CHOOSE i \in 2..Len(indexFile.rows) :
        /\ indexFile.rows[i][1] = k
        /\ \A j \in (i + 1)..Len(indexFile.rows) : indexFile.rows[j][1] # k

\* Two records after the first carry the same key and different values.
SameKeyRows ==
    \E i, j \in 2..Len(indexFile.rows) :
        /\ i < j
        /\ indexFile.rows[i][1] = indexFile.rows[j][1]
        /\ indexFile.rows[i] # indexFile.rows[j]

\* C14: loading detects no duplicates: an index file whose records all have
\* three columns and numeric start and size loads without error whether or
\* not two records carry the same key, and the loaded map holds for every
\* key the values of the last record with that key.
C14_LastRowWins ==
    /\ (rtiRet.err # "" /\ indexFile.exists /\ indexFile.rows # <<>>
          /\ \A i \in 2..Len(indexFile.rows) :
                ReadRecord(indexFile.rows[i], indexFile.rows[1]).err = "")
       => rtiRet.err = "nil"
    /\ rtiRet.err = "nil"
       => /\ DOMAIN rtiRet.Files = {indexFile.rows[i][1] : i \in 2..Len(indexFile.rows)}
          /\ \A k \in DOMAIN rtiRet.Files :
                rtiRet.Files[k] = ReadRecord(indexFile.rows[LastRowOf(k)],
                                             indexFile.rows[1]).fi

\* A file with two records for one key was loaded without error.
C14_Witness ==
    /\ rtiRet.err = "nil"
    /\ SameKeyRows
    /\ KeyA \in DOMAIN rtiRet.Files
    /\ rtiRet.Files[KeyA] = [Start |-> 1024, Size |-> 513]
    /\ indexFile.rows[2] = EntryRow(KeyA, [Start |-> 0, Size |-> 13])

\* C15: when CreateTarIndex has returned no error, ReadTarIndex on the index
\* file it wrote returns no error and a map equal to the index that was
\* built, whatever the order the rows were written in.
C15_StoreRoundTrip ==
    (ctiRet = "nil" /\ rtiRet.err # "")
    => /\ rtiRet.err = "nil"
       /\ rtiRet.Files = index

\* What ExtractBytesOfFile(filePath) returns on a handle that was just
\* opened (position 0) on archive a with the index files.
ExtractOnFresh(files, a, filePath) ==
    LET hash == LookupKey(filePath)
    IN  IF hash \notin DOMAIN files THEN NotFound(filePath, hash)
        ELSE IF files[hash].Start + headerSize < 0
        THEN [data |-> NoData, err |-> "failed to seek to file position", key |-> hash]
        ELSE LET r == ReadFull(a, SeekStart(0, files[hash].Start + headerSize),
                               files[hash].Size)
             IN  [data |-> r.data, err |-> r.err, key |-> hash]

\* C11: every call on a handle, whatever calls the handle has served
\* before and however they ended, returns what the same call returns on a
\* freshly opened handle with the same index and archive; the index of the
\* handle stays the one that was loaded.
C11_HandleReuse ==
    (pc = "ready" /\ call.n >= 1)
    => /\ th.Files = rtiRet.Files
       /\ exRet = ExtractOnFresh(rtiRet.Files, tarFile, call.filePath)

\* The second call on a handle returned a member's bytes after the first
\* had ended with the read error.
C11_Witness ==
    /\ pc = "ready"
    /\ call.n = 2
    /\ shortRead
    /\ exRet.err = ""
    /\ Len(exRet.data.bytes) > 0

\* The bytes of the member of the archive that call c asked for by its
\* name are what c returned.
GotMember(c) ==
    \A k \in 1..Len(tarFile) :
        (tarFile[k].name = caller[c].filePath
            /\ LookupKey(caller[c].filePath) \in DOMAIN th.Files)
        => /\ caller[c].ret.err = ""
           /\ caller[c].ret.data = [isNil |-> FALSE, bytes |-> Content(tarFile, k)]

\* C12: calls that share one archive file are not safe: a call whose Seek
\* and Read no other call's Seek or Read came between returns what it
\* returns alone, and only such a call is certain to (the witness is a call
\* that returned, without error, bytes that are not its member's content).
C12_SharedFile ==
    \A c \in Callers :
        (caller[c].pc = "done" /\ ~caller[c].crossed)
        => /\ caller[c].ret = ExtractOnFresh(th.Files, tarFile, caller[c].filePath)
           /\ GotMember(c)

\* On the shared file, a call for "a" returned 13 bytes that are not the
\* content of "a", with no error.
C12_Witness ==
    \E c \in Callers :
        /\ fileOf = [d \in Callers |-> 1]
        /\ caller[c].pc = "done"
        /\ caller[c].filePath = NameA
        /\ caller[c].ret.err = ""
        /\ Len(caller[c].ret.data.bytes) = 13
        /\ caller[c].ret.data.bytes # Content(tarFile, 1)

\* C13: with one loaded index and a file of its own for every call, every
\* call returns, in every interleaving of the lookups, seeks and reads,
\* what it returns alone, which for a member's name is the member's bytes;
\* and the index stays the one that was loaded.
C13_OwnFiles ==
    /\ pc = "ready" => th.Files = rtiRet.Files
    /\ \A c \in Callers :
          caller[c].pc = "done"
          => /\ caller[c].ret = ExtractOnFresh(rtiRet.Files, tarFile, caller[c].filePath)
             /\ GotMember(c)
    /\ \A c \in Callers : caller[c].pc # "panic"

\* Two calls with a file each, for different members, each returned its
\* member's bytes, and one made its Seek or Read between the Seek and the
\* Read of the other.
C13_Witness ==
    /\ fileOf[1] # fileOf[2]
    /\ caller[1].pc = "done" /\ caller[2].pc = "done"
    /\ caller[1].crossed
    /\ caller[1].filePath = NameA /\ caller[2].filePath = NameB
    /\ caller[1].ret.data = [isNil |-> FALSE, bytes |-> Content(tarFile, 1)]
    /\ caller[2].ret.data = [isNil |-> FALSE, bytes |-> Content(tarFile, 2)]

====
